---------------------------- MODULE Spec2Model ----------------------------
(***************************************************************************)
(* Model of the transcription/diarization client (AssemblyAI service):     *)
(*   - the batch workflow  transcribeWithDiarization                        *)
(*       (uploadAudio -> startTranscription -> pollTranscription),          *)
(*   - the realtime session  startRealtimeTranscription / stop.             *)
(* Execution is a single-threaded event loop: every action below is one    *)
(* run-to-completion step of the code between two suspension points         *)
(* (await of a fetch, of getUserMedia, of the poll timer) or one event      *)
(* handler invocation.                                                      *)
(***************************************************************************)
EXTENDS Integers, Sequences, FiniteSets, TLC

(***************************************************************************)
(* Bounds of the model.                                                     *)
(***************************************************************************)
\* Status-request/delay counters saturate here: the value PollCap reads
\* "PollCap or more".  The poll loop itself is never cut off.
PollCap == 4
\* Longest utterance list a completed job payload carries.
MaxUtts == 2
\* Calls of a session's stop.
MaxStops == 2
\* Audio frames the processor node delivers.
MaxFrames == 2
\* Socket messages one session receives.
MaxMsgs == 2
\* Calls of startRealtimeTranscription that may overlap.
MaxSessions == 2
\* Chunks one provider stream delivers.
MaxChunks == 2
\* Calls of startRecording made in one behaviour.
MaxRecCalls == 3
\* Runs of handleTransform started in one behaviour.
MaxRuns == 2
\* Samples in one buffer passed to createPcmBlob.
MaxSamples == 3

(***************************************************************************)
(* Values exchanged with the proxy endpoints.                               *)
(***************************************************************************)
\* A JSON field that is absent (undefined).
Absent == "absent"
\* Values of the "error" field of a proxy/provider error body.
ErrFields == {Absent, "E1"}
\* Opaque upload reference URLs and job identifiers.
UploadUrls == {"url1", "url2"}
JobIds == {"job1", "job2"}
\* Provider job statuses; the first two are the non-terminal ones.
NonTerminal == {"queued", "processing"}
Terminal == {"completed", "error"}
\* Speaker labels with the order String.prototype sort gives them.
Speakers == {"A", "B"}
SpeakerRank(s) == IF s = "A" THEN 1 ELSE 2
Utterance == [speaker : Speakers, text : {"hi"}]
UtteranceLists == UNION {[1..n -> Utterance] : n \in 0..MaxUtts}
Texts == {"", "full text"}
\* A "completed" payload: full text and utterances (the field may be absent).
Payloads ==
    [text : Texts, hasUtterances : {TRUE}, utterances : UtteranceLists]
    \cup [text : Texts, hasUtterances : {FALSE}, utterances : {<<>>}]
NoPayload == [text |-> "", hasUtterances |-> FALSE, utterances |-> <<>>]

\* Progress labels of the three steps.
LabelUpload == "Uploading audio..."
LabelStart == "Starting speaker detection..."
LabelPoll == "Processing audio (this may take a moment)..."

\* Messages of the errors the runtime raises: a rejected fetch and a
\* response body that response.json() cannot parse.
NetworkErrorMsg == <<"Failed to fetch">>
ParseErrorMsg == <<"Unexpected token in JSON">>

\* Outcomes of one fetch + body read, as the code distinguishes them:
\*   reject  - fetch() rejects (transport failure)
\*   badjson - response.json() rejects
\*   notok   - !response.ok, body parsed, carrying err
\*   ok      - response.ok, body parsed
FailedResponses ==
    {[kind |-> "reject", err |-> Absent], [kind |-> "badjson", err |-> Absent]}
    \cup {[kind |-> "notok", err |-> e] : e \in ErrFields}
OkResponse == [kind |-> "ok", err |-> Absent]
NoResponse == [kind |-> "none", err |-> Absent]

VARIABLES
    \* ---- batch workflow (transcribeWithDiarization) ----
    bPc,            \* position of the async function
    hasProgress,    \* whether the caller passed onProgress
    bLog,           \* progress labels, requests and the answers to the
                    \* upload and start-job requests, in order; of the
                    \* status requests only the first is logged (the rest
                    \* are counted in polls)
    uploadUrl,      \* const uploadUrl
    transcriptId,   \* const transcriptId
    polls,          \* status requests issued (saturating)
    delays,         \* 3-second waits completed (saturating)
    nonTerminal,    \* non-terminal statuses received (saturating)
    lastResp,       \* outcome of the last request that was answered
    lastStatus,     \* status field of the last parsed status body
    failedAt,       \* step whose failure was caught ("none" if none)
    promise,        \* state of the returned promise
    result,         \* value the promise resolved with
    \* ---- provider side of the batch job ----
    jobStatus,      \* status the provider reports for the job
    jobError,       \* its error field
    jobPayload,     \* its text/utterances once completed
    \* ---- realtime session (startRealtimeTranscription) ----
    rtPc,           \* position of startRealtimeTranscription
    readyState,     \* socket.readyState ("NONE": no socket constructed)
    sockFailed,     \* the connection was failed before it was established
    openHandler,    \* position of the async socket.onopen handler
    stream,         \* let stream: "null", or its tracks "live" / "stopped"
    audioContext,   \* let audioContext: "null", "running" or "closed"
    source,         \* let source: "null", "created", "connected", "disconnected"
    processor,      \* let processor: likewise
    sent,           \* socket.send calls that returned, in order
    framesOpen,     \* frames delivered while the socket was OPEN
    framesOther,    \* frames delivered in any other socket state
    errors,         \* onError invocations, in order
    stopCalls,      \* calls of session.stop
    stopThrew,      \* some call of stop raised an exception
    releaseCalls,   \* per release operation, how often stop invoked it
    ctxCloseRejected, \* audioContext.close() returned a rejected promise
    lastStop,       \* the latest stop call: socket state and resources it
                    \* found, the operations it completed in order, and the
                    \* operation that threw
    faults,         \* whether the platform calls made by stop may throw
    received,       \* message events delivered to socket.onmessage, each
                    \* with the callback invocations its handler run made
    transcripts,    \* onTranscript invocations, in order
    sockEvents,     \* error and close events the socket dispatched
    micOutcome,     \* how the part of socket.onopen after the await ended
    tokenResp,      \* the outcome of the token request
    rejection,      \* the message of the error the promise of
                    \* startRealtimeTranscription rejected with
    \* ---- overlapping calls of startRealtimeTranscription ----
    own,            \* per call: its position, whether its stop was called,
                    \* the objects its closure variables refer to (0: none)
                    \* and whether the tracks of its stream are live
    objects,        \* platform objects created so far
    \* ---- transformContentStream ----
    gen,            \* per call: position of the generator, requests made to
                    \* the generative API, chunks its provider stream
                    \* delivered, fragments its consumer received
    options,        \* the options argument (tone, language, styleGuide)
    instruction,    \* the parts of systemInstruction built from it
    \* ---- formatDiarizedTranscript ----
    formatArg,      \* the argument result
    formatted,      \* the string returned, as a sequence of its pieces
    \* ---- createPcmBlob ----
    samples,        \* the argument data
    blob,           \* the data field of the value returned
    \* ---- App: transformation ----
    ui,             \* React state: transcript, transformedOutput (the
                    \* fragments appended, each tagged with its run),
                    \* isTransforming, error and the four settings
    prevSettings,   \* prevFormatRef, prevToneRef, prevLengthRef,
                    \* prevLanguageRef
    shortcutSettings, \* the settings in the closure of the registered
                    \* keydown handler
    runs,           \* the runs of handleTransform started so far
    cleared,        \* handleClear ran and since then the user supplied no
                    \* input and no run was started
    \* ---- App: recording ----
    isRecording,    \* React state
    recognitionRef, \* recognitionRef.current: 0 (null) or the call whose
                    \* recognition it holds
    recCalls,       \* the calls of startRecording made so far
    speechSupported \* the browser has SpeechRecognition

batchVars == <<bPc, hasProgress, bLog, uploadUrl, transcriptId, polls, delays,
               nonTerminal, lastResp, lastStatus, failedAt, promise, result,
               jobStatus, jobError, jobPayload>>

rtVars == <<rtPc, readyState, sockFailed, openHandler, stream, audioContext,
            source, processor, sent, framesOpen, framesOther, errors,
            stopCalls, stopThrew, releaseCalls, ctxCloseRejected, lastStop,
            faults, received, transcripts, sockEvents, micOutcome,
            tokenResp, rejection>>

sessVars == <<own, objects>>

genVars == <<gen>>
instrVars == <<options, instruction>>

fmtVars == <<formatArg, formatted>>
pcmVars == <<samples, blob>>
appVars == <<ui, prevSettings, shortcutSettings, runs, cleared>>
recVars == <<isRecording, recognitionRef, recCalls, speechSupported>>

vars == <<batchVars, rtVars, sessVars, genVars, instrVars, fmtVars, pcmVars,
          appVars, recVars>>

\* What a step of the batch workflow, respectively of the realtime session,
\* leaves alone.
notBatch == <<rtVars, sessVars, genVars, instrVars, fmtVars, pcmVars,
              appVars, recVars>>
notRealtime == <<batchVars, sessVars, genVars, instrVars, fmtVars, pcmVars,
                 appVars, recVars>>
notSessions == <<batchVars, rtVars, genVars, instrVars, fmtVars, pcmVars,
                 appVars, recVars>>
notStream == <<batchVars, rtVars, sessVars, instrVars, fmtVars, pcmVars,
               appVars, recVars>>
notInstruction == <<batchVars, rtVars, sessVars, genVars, fmtVars, pcmVars,
                    appVars, recVars>>
notFormat == <<batchVars, rtVars, sessVars, genVars, instrVars, pcmVars,
               appVars, recVars>>
notPcm == <<batchVars, rtVars, sessVars, genVars, instrVars, fmtVars,
            appVars, recVars>>
notApp == <<batchVars, rtVars, sessVars, genVars, instrVars, fmtVars,
            pcmVars, recVars>>
notRecording == <<batchVars, rtVars, sessVars, genVars, instrVars, fmtVars,
                  pcmVars>>

(***************************************************************************)
(* Pure helpers of the batch client.                                        *)
(***************************************************************************)
\* error.error || '<default>'
OrDefault(e, default) == IF e = Absent THEN default ELSE e

\* new Error(...).message for a failed request of a step.
ThrownMessage(resp, default) ==
    CASE resp.kind = "reject" -> NetworkErrorMsg
      [] resp.kind = "badjson" -> ParseErrorMsg
      [] resp.kind = "notok" -> <<OrDefault(resp.err, default)>>

\* `Transcription failed: ${data.error}`
TranscriptionFailedMsg(e) ==
    <<"Transcription failed: ", IF e = Absent THEN "undefined" ELSE e>>

Inc(n) == IF n < PollCap THEN n + 1 ELSE PollCap

\* [...new Set(utterances.map(u => u.speaker))].sort()
DistinctSpeakers(utts) == {utts[i].speaker : i \in 1..Len(utts)}
SetToSeq(S) ==
    CHOOSE s \in [1..Cardinality(S) -> S] : {s[i] : i \in 1..Cardinality(S)} = S
\* Variant: the label of every utterance, as the utterances come.
SpeakerOfEachUtterance(utts) == [i \in 1..Len(utts) |-> utts[i].speaker]
SortedSpeakers(utts) ==
    SortSeq(SetToSeq(DistinctSpeakers(utts)),
            LAMBDA a, b : SpeakerRank(a) < SpeakerRank(b))

\* Step 4 and the return of the try block.
CompletedResult(data) ==
    LET utterances == IF data.hasUtterances THEN data.utterances ELSE <<>>
    IN  [text |-> data.text, utterances |-> utterances,
         speakers |-> SortedSpeakers(utterances),
         status |-> "completed", error |-> <<>>]

\* The catch block: the value returned for a caught error.
ErrorResult(msg) ==
    [text |-> "", utterances |-> <<>>, speakers |-> <<>>,
     status |-> "error", error |-> msg]

\* Variant: the catch block rethrows, as startRealtimeTranscription's does.
CatchRethrows == "rejected"
\* How the catch block settles the returned promise.
CatchSettles == "resolved"

NoResult == [text |-> "", utterances |-> <<>>, speakers |-> <<>>,
             status |-> "none", error |-> <<>>]

\* Variant: the loop gives up after three status requests.
PollDecisionCeiling(status) ==
    CASE status = "completed" -> "return"
      [] status = "error" -> "throw"
      [] polls >= 3 -> "throw"
      [] OTHER -> "continue"
\* The loop body's decision on a parsed status body.
PollDecision(status) ==
    CASE status = "completed" -> "return"
      [] status = "error" -> "throw"
      [] OTHER -> "continue"

\* Variant: the request is issued before the label is reported.
AnnounceAfter(label, req) ==
    <<req>>
    \o (IF hasProgress THEN <<[ev |-> "progress", arg |-> label]>> ELSE <<>>)
\* onProgress?.(label) followed by the request of the step.
Announce(label, req) ==
    (IF hasProgress THEN <<[ev |-> "progress", arg |-> label]>> ELSE <<>>)
    \o <<req>>

Request(endpoint, arg) == [ev |-> endpoint, arg |-> arg]
\* The answer to a request, as the environment delivered it.
Answer(what, arg) == [ev |-> what, arg |-> arg]

(***************************************************************************)
(* Batch workflow.                                                          *)
(***************************************************************************)
BatchInit ==
    /\ bPc = "idle"
    /\ hasProgress \in BOOLEAN
    /\ bLog = <<>>
    /\ uploadUrl = Absent
    /\ transcriptId = Absent
    /\ polls = 0
    /\ delays = 0
    /\ nonTerminal = 0
    /\ lastResp = NoResponse
    /\ lastStatus = "none"
    /\ failedAt = "none"
    /\ promise = "none"
    /\ result = NoResult
    /\ jobStatus = "none"
    /\ jobError = Absent
    /\ jobPayload = NoPayload

\* The catch block runs for an error thrown in `step` with message msg.
Caught(step, msg) ==
    /\ bPc' = "done"
    /\ failedAt' = step
    /\ promise' = CatchSettles
    /\ result' = ErrorResult(msg)

\* Call: Step 1 up to the await of the upload fetch.
TranscribeBegin ==
    /\ bPc = "idle"
    /\ bPc' = "upload"
    /\ promise' = "pending"
    /\ bLog' = bLog \o Announce(LabelUpload, Request("upload", "audio"))
    /\ UNCHANGED <<hasProgress, uploadUrl, transcriptId, polls, delays,
                   nonTerminal, lastResp, lastStatus, failedAt, result,
                   jobStatus, jobError, jobPayload>>
    /\ UNCHANGED notBatch

\* uploadAudio's fetch is answered; on success Step 2 runs up to the await of
\* the start-job fetch.
UploadResponse ==
    /\ bPc = "upload"
    /\ \/ \E resp \in FailedResponses :
            /\ lastResp' = resp
            /\ Caught("upload", ThrownMessage(resp, "Upload failed"))
            /\ bLog' = Append(bLog, Answer("upload failed", resp.kind))
            /\ UNCHANGED uploadUrl
       \/ \E url \in UploadUrls :
            /\ lastResp' = OkResponse
            /\ uploadUrl' = url
            /\ bLog' = Append(bLog, Answer("upload ok", url))
                        \o Announce(LabelStart, Request("transcribe", url))
            /\ bPc' = "start"
            /\ UNCHANGED <<failedAt, promise, result>>
    /\ UNCHANGED <<hasProgress, transcriptId, polls, delays, nonTerminal,
                   lastStatus, jobStatus, jobError, jobPayload>>
    /\ UNCHANGED notBatch

\* startTranscription's fetch is answered; on success the provider has
\* queued the job and Step 3 issues the first status request.
StartResponse ==
    /\ bPc = "start"
    /\ \/ \E resp \in FailedResponses :
            /\ lastResp' = resp
            /\ Caught("start", ThrownMessage(resp, "Transcription start failed"))
            /\ bLog' = Append(bLog, Answer("transcribe failed", resp.kind))
            /\ UNCHANGED <<transcriptId, polls, jobStatus>>
       \/ \E id \in JobIds :
            /\ lastResp' = OkResponse
            /\ transcriptId' = id
            /\ jobStatus' = "queued"
            /\ bLog' = Append(bLog, Answer("transcribe ok", id))
                        \o Announce(LabelPoll, Request("status", id))
            /\ polls' = Inc(polls)
            /\ bPc' = "poll"
            /\ UNCHANGED <<failedAt, promise, result>>
    /\ UNCHANGED <<hasProgress, uploadUrl, delays, nonTerminal, lastStatus,
                   jobError, jobPayload>>
    /\ UNCHANGED notBatch

\* A status fetch is answered: the body of the while loop up to the timer.
PollResponse ==
    /\ bPc = "poll"
    /\ \/ \E resp \in FailedResponses :
            /\ lastResp' = resp
            /\ Caught("poll", ThrownMessage(resp, "Polling failed"))
            /\ UNCHANGED <<lastStatus, nonTerminal>>
       \/ /\ lastResp' = OkResponse
          /\ lastStatus' = jobStatus
          /\ LET decision == PollDecision(jobStatus) IN
             CASE decision = "return" ->
                    /\ bPc' = "done"
                    /\ promise' = "resolved"
                    /\ result' = CompletedResult(jobPayload)
                    /\ UNCHANGED <<failedAt, nonTerminal>>
               [] decision = "throw" ->
                    /\ Caught("poll", TranscriptionFailedMsg(jobError))
                    /\ UNCHANGED nonTerminal
               [] OTHER ->
                    /\ bPc' = "wait"
                    /\ nonTerminal' = Inc(nonTerminal)
                    /\ UNCHANGED <<failedAt, promise, result>>
    /\ UNCHANGED <<hasProgress, bLog, uploadUrl, transcriptId, polls, delays,
                   jobStatus, jobError, jobPayload>>
    /\ UNCHANGED notBatch

\* Variant: the timer promise is not awaited, the loop polls again at once.
PollDelayNotAwaited ==
    /\ bPc = "wait"
    /\ polls' = Inc(polls)
    /\ bPc' = "poll"
    /\ UNCHANGED <<hasProgress, bLog, uploadUrl, transcriptId, nonTerminal,
                   delays, lastResp, lastStatus, failedAt, promise, result,
                   jobStatus, jobError, jobPayload>>
    /\ UNCHANGED notBatch
\* The 3-second timer fires and the loop issues the next status request.
PollDelay ==
    /\ bPc = "wait"
    /\ delays' = Inc(delays)
    /\ polls' = Inc(polls)
    /\ bPc' = "poll"
    /\ UNCHANGED <<hasProgress, bLog, uploadUrl, transcriptId, nonTerminal,
                   lastResp, lastStatus, failedAt, promise, result,
                   jobStatus, jobError, jobPayload>>
    /\ UNCHANGED notBatch

\* The provider moves the job to another status; terminal statuses stay.
ProviderAdvance ==
    /\ jobStatus \in NonTerminal
    /\ \/ /\ jobStatus' \in NonTerminal \ {jobStatus}
          /\ UNCHANGED <<jobError, jobPayload>>
       \/ /\ jobStatus' = "completed"
          /\ jobPayload' \in Payloads
          /\ UNCHANGED jobError
       \/ /\ jobStatus' = "error"
          /\ jobError' \in ErrFields
          /\ UNCHANGED jobPayload
    /\ UNCHANGED <<bPc, hasProgress, bLog, uploadUrl, transcriptId, polls,
                   delays, nonTerminal, lastResp, lastStatus, failedAt,
                   promise, result>>
    /\ UNCHANGED notBatch

\* Steps of the client's own code.
BatchClientNext ==
    \/ TranscribeBegin
    \/ UploadResponse
    \/ StartResponse
    \/ PollResponse
    \/ PollDelay

BatchNext == BatchClientNext \/ ProviderAdvance

(***************************************************************************)
(* Realtime session.                                                        *)
(***************************************************************************)
\* CloseEvent.code of a normal closure.
NormalClosure == 1000
\* Close codes a close event carries: normal closure, no status received
\* (close() was called without a code), abnormal closure.
CloseCodes == {NormalClosure, 1005, 1006}
\* CloseEvent.reason values; the empty string is falsy.
CloseReasons == {"", "R1"}

\* The teardown operations of stop, in the order of its statements.
StopSteps ==
    <<"terminate", "close", "disconnect processor", "disconnect source",
      "close context", "stop tracks">>
\* The operations that release the audio graph and the microphone.
ReleaseOps ==
    {"disconnect processor", "disconnect source", "close context",
     "stop tracks"}

\* Variant: the termination message is sent whatever the socket state.
StepAppliesUnguardedSend(step) ==
    CASE step = "terminate" -> TRUE
      [] step = "close" -> TRUE
      [] step = "disconnect processor" -> processor # "null"
      [] step = "disconnect source" -> source # "null"
      [] step = "close context" -> audioContext # "null"
      [] step = "stop tracks" -> stream # "null"
\* The condition guarding each statement of stop.
StepApplies(step) ==
    CASE step = "terminate" -> readyState = "OPEN"
      [] step = "close" -> TRUE
      [] step = "disconnect processor" -> processor # "null"
      [] step = "disconnect source" -> source # "null"
      [] step = "close context" -> audioContext # "null"
      [] step = "stop tracks" -> stream # "null"

\* Variant: the audio cleanup runs before the socket is closed.
StopPlanCleanupFirst ==
    SelectSeq(<<"terminate", "disconnect processor", "disconnect source",
                "close context", "stop tracks", "close">>, StepApplies)
\* The operations one call of stop goes through, in order.
StopPlan == SelectSeq(StopSteps, StepApplies)

\* WebSocket.send throws InvalidStateError while the socket is CONNECTING;
\* no other call of stop throws on a conforming platform.
PlatformThrows(step) == step = "terminate" /\ readyState = "CONNECTING"

\* Variant: the frame handler sends without looking at the socket state.
FrameGuardMissing == TRUE
\* The condition under which onaudioprocess sends the frame.
FrameGuard == readyState = "OPEN"

\* The resources the closure variables hold.
HeldResources ==
    {r \in {"processor", "source", "audioContext", "stream"} :
        CASE r = "processor" -> processor # "null"
          [] r = "source" -> source # "null"
          [] r = "audioContext" -> audioContext # "null"
          [] r = "stream" -> stream # "null"}

\* Payloads of message events.  text is Absent when the JSON object has no
\* text field; NotJson is a payload JSON.parse rejects.
NotJson == [json |-> FALSE, message_type |-> Absent, text |-> Absent]
JsonMessage(type, text) == [json |-> TRUE, message_type |-> type, text |-> text]
SocketMessages ==
    {JsonMessage(t, x) : t \in {"FinalTranscript", "PartialTranscript"},
                         x \in {"", "a"}}
    \cup {JsonMessage("SessionBegins", Absent), NotJson}
\* JavaScript truthiness of a text field.
Truthy(v) == v \notin {Absent, ""}
\* One run of a handler: the onTranscript and onError invocations it makes,
\* and whether it ends by throwing.
Run(transcript, error, threw) ==
    [transcript |-> transcript, error |-> error, threw |-> threw]
\* Variant: the handler does not look at data.text.
OnMessageNoTextTest(m) ==
    CASE ~m.json -> Run(<<>>, <<>>, TRUE)
      [] m.json /\ m.message_type = "FinalTranscript" ->
            Run(<<<<m.text, TRUE>>>>, <<>>, FALSE)
      [] m.json /\ m.message_type = "PartialTranscript" ->
            Run(<<<<m.text, FALSE>>>>, <<>>, FALSE)
      [] OTHER -> Run(<<>>, <<>>, FALSE)
\* socket.onmessage
OnMessage(m) ==
    CASE ~m.json -> Run(<<>>, <<>>, TRUE)
      [] m.json /\ m.message_type = "FinalTranscript" /\ Truthy(m.text) ->
            Run(<<<<m.text, TRUE>>>>, <<>>, FALSE)
      [] m.json /\ m.message_type = "PartialTranscript" /\ Truthy(m.text) ->
            Run(<<<<m.text, FALSE>>>>, <<>>, FALSE)
      [] OTHER -> Run(<<>>, <<>>, FALSE)
\* Variant: a new invocation overtakes the ones already made.
DeliverOutOfOrder(log, calls) == calls \o log
\* The handler invokes onTranscript synchronously, before it returns.
Deliver(log, calls) == log \o calls

NoStop == [ready |-> "NONE", held |-> {}, ops |-> <<>>, threw |-> "none"]

\* The promise of startRealtimeTranscription has not rejected.
NotRejected == <<"not rejected">>

RtInit(f) ==
    /\ rtPc = "idle"
    /\ readyState = "NONE"
    /\ sockFailed = FALSE
    /\ openHandler = "idle"
    /\ stream = "null"
    /\ audioContext = "null"
    /\ source = "null"
    /\ processor = "null"
    /\ sent = <<>>
    /\ framesOpen = 0
    /\ framesOther = 0
    /\ errors = <<>>
    /\ stopCalls = 0
    /\ stopThrew = FALSE
    /\ releaseCalls = [op \in ReleaseOps |-> 0]
    /\ ctxCloseRejected = FALSE
    /\ lastStop = NoStop
    /\ faults = f
    /\ received = <<>>
    /\ transcripts = <<>>
    /\ sockEvents = <<>>
    /\ micOutcome = "none"
    /\ tokenResp = NoResponse
    /\ rejection = NotRejected

\* The events a socket dispatches to onerror and onclose.
ErrorEvent == [ev |-> "error", code |-> 0, reason |-> ""]
CloseEvent(code, reason) == [ev |-> "close", code |-> code, reason |-> reason]
\* The events of a failed connection: error, then close with code 1006.
FailEvents == <<ErrorEvent, CloseEvent(1006, "")>>

\* socket.onerror
OnSocketError == <<"WebSocket connection error">>
\* Variant: the close handler reports whatever the close code.
OnSocketCloseAnyCode(code, reason) ==
    <<<<"Connection closed: ",
        IF reason = "" THEN "Unknown reason" ELSE reason>>>>
\* socket.onclose: the onError messages a close event produces.
OnSocketClose(code, reason) ==
    IF code # NormalClosure
    THEN <<<<"Connection closed: ",
             IF reason = "" THEN "Unknown reason" ELSE reason>>>>
    ELSE <<>>
\* The onError invocations the handlers make for a run of events.
RECURSIVE Dispatch(_)
Dispatch(evs) ==
    IF evs = <<>> THEN <<>>
    ELSE (IF Head(evs).ev = "error" THEN <<OnSocketError>>
          ELSE OnSocketClose(Head(evs).code, Head(evs).reason))
         \o Dispatch(Tail(evs))

\* Call of startRealtimeTranscription up to the await of the token fetch.
RtStart ==
    /\ rtPc = "idle"
    /\ rtPc' = "token"
    /\ UNCHANGED <<readyState, sockFailed, openHandler, stream, audioContext,
                   source, processor, sent, framesOpen, framesOther, errors,
                   stopCalls, stopThrew, releaseCalls, ctxCloseRejected,
                   lastStop, faults>>
    /\ UNCHANGED <<received, transcripts, sockEvents, micOutcome>>
    /\ UNCHANGED <<tokenResp, rejection>>
    /\ UNCHANGED notRealtime

\* The token fetch is answered: on failure the outer catch reports and
\* rethrows; on success the socket is constructed, the handlers are attached
\* and the session is returned.
\* Variant: the outer catch rethrows without reporting.
OuterCatchSilent(message) == <<>>
\* The outer catch of startRealtimeTranscription: the onError invocations
\* it makes before it rethrows.
OuterCatch(message) == <<message>>
TokenResponse ==
    /\ rtPc = "token"
    /\ \/ \E resp \in FailedResponses :
            LET message == ThrownMessage(resp, "Failed to get realtime token")
            IN  /\ tokenResp' = resp
                /\ errors' = errors \o OuterCatch(message)
                /\ rejection' = message
                /\ rtPc' = "failed"
                /\ UNCHANGED readyState
       \/ /\ tokenResp' = OkResponse
          /\ readyState' = "CONNECTING"
          /\ rtPc' = "session"
          /\ UNCHANGED <<errors, rejection>>
    /\ UNCHANGED <<sockFailed, openHandler, stream, audioContext, source,
                   processor, sent, framesOpen, framesOther, stopCalls,
                   stopThrew, releaseCalls, ctxCloseRejected, lastStop,
                   faults>>
    /\ UNCHANGED <<received, transcripts, sockEvents, micOutcome>>
    /\ UNCHANGED notRealtime

\* The open event: socket.onopen runs up to the await of getUserMedia.
SocketOpen ==
    /\ readyState = "CONNECTING"
    /\ readyState' = "OPEN"
    /\ openHandler' = "awaitMic"
    /\ UNCHANGED <<rtPc, sockFailed, stream, audioContext, source, processor,
                   sent, framesOpen, framesOther, errors, stopCalls,
                   stopThrew, releaseCalls, ctxCloseRejected, lastStop,
                   faults>>
    /\ UNCHANGED <<received, transcripts, sockEvents, micOutcome>>
    /\ UNCHANGED <<tokenResp, rejection>>
    /\ UNCHANGED notRealtime

\* getUserMedia settles and the rest of socket.onopen runs: the closure
\* variables are assigned one after the other until a call throws.
\*   denied     - getUserMedia rejects
\*   no context - new AudioContext throws
\*   no source  - createMediaStreamSource throws
\*   no processor - createScriptProcessor throws
\*   ok         - the graph is built and connected
MicOutcomes == {"denied", "no context", "no source", "no processor", "ok"}
\* Variant: the failure is reported by the handler and once more.
MicFailureReportedTwice(o) ==
    <<<<"Microphone access failed: ", o>>, <<"Microphone access failed: ", o>>>>
\* The catch block of socket.onopen: the onError invocations it makes.
MicFailure(o) == <<<<"Microphone access failed: ", o>>>>
MicResult ==
    /\ openHandler = "awaitMic"
    /\ openHandler' = "done"
    /\ \E o \in MicOutcomes :
        /\ stream' = IF o = "denied" THEN stream ELSE "live"
        /\ audioContext' =
              IF o \in {"denied", "no context"} THEN audioContext ELSE "running"
        /\ source' = CASE o = "ok" -> "connected"
                       [] o = "no processor" -> "created"
                       [] OTHER -> source
        /\ processor' = IF o = "ok" THEN "connected" ELSE processor
        /\ errors' = IF o = "ok" THEN errors ELSE errors \o MicFailure(o)
        /\ micOutcome' = o
    /\ UNCHANGED <<rtPc, readyState, sockFailed, sent, framesOpen,
                   framesOther, stopCalls, stopThrew, releaseCalls,
                   ctxCloseRejected, lastStop, faults>>
    /\ UNCHANGED <<received, transcripts, sockEvents>>
    /\ UNCHANGED <<tokenResp, rejection>>
    /\ UNCHANGED notRealtime

\* processor.onaudioprocess: one captured frame.
AudioFrame ==
    /\ processor = "connected"
    /\ audioContext = "running"
    /\ framesOpen + framesOther < MaxFrames
    /\ IF readyState = "OPEN"
       THEN framesOpen' = framesOpen + 1 /\ UNCHANGED framesOther
       ELSE framesOther' = framesOther + 1 /\ UNCHANGED framesOpen
    /\ sent' = IF FrameGuard THEN Append(sent, "audio") ELSE sent
    /\ UNCHANGED <<rtPc, readyState, sockFailed, openHandler, stream,
                   audioContext, source, processor, errors, stopCalls,
                   stopThrew, releaseCalls, ctxCloseRejected, lastStop,
                   faults>>
    /\ UNCHANGED <<received, transcripts, sockEvents, micOutcome>>
    /\ UNCHANGED <<tokenResp, rejection>>
    /\ UNCHANGED notRealtime

\* session.stop(): the statements run in order until one throws; failAt is
\* the statement the platform fault hits (0: none).
StopCall(failAt) ==
    LET plan == StopPlan
        throwing == {i \in 1..Len(plan) : i = failAt \/ PlatformThrows(plan[i])}
        first == IF throwing = {} THEN 0
                 ELSE CHOOSE i \in throwing : \A j \in throwing : i <= j
        done == IF first = 0 THEN plan ELSE SubSeq(plan, 1, first - 1)
        Did(step) == \E i \in 1..Len(done) : done[i] = step
    IN  /\ stopCalls' = stopCalls + 1
        /\ stopThrew' = (stopThrew \/ first # 0)
        /\ lastStop' = [ready |-> readyState, held |-> HeldResources,
                        ops |-> done,
                        threw |-> IF first = 0 THEN "none" ELSE plan[first]]
        /\ sent' = IF Did("terminate") THEN Append(sent, "terminate") ELSE sent
        /\ readyState' =
              IF Did("close") /\ readyState \in {"CONNECTING", "OPEN"}
              THEN "CLOSING" ELSE readyState
        /\ sockFailed' = (sockFailed \/ (Did("close") /\ readyState = "CONNECTING"))
        /\ processor' =
              IF Did("disconnect processor") THEN "disconnected" ELSE processor
        /\ source' = IF Did("disconnect source") THEN "disconnected" ELSE source
        /\ audioContext' = IF Did("close context") THEN "closed" ELSE audioContext
        /\ ctxCloseRejected' =
              (ctxCloseRejected \/ (Did("close context") /\ audioContext = "closed"))
        /\ stream' = IF Did("stop tracks") THEN "stopped" ELSE stream
        /\ releaseCalls' =
              [op \in ReleaseOps |->
                  releaseCalls[op] + (IF Did(op) THEN 1 ELSE 0)]

Stop ==
    /\ rtPc = "session"
    /\ stopCalls < MaxStops
    /\ \E failAt \in (IF faults THEN 0..Len(StopPlan) ELSE {0}) :
          StopCall(failAt)
    /\ UNCHANGED <<rtPc, openHandler, framesOpen, framesOther, errors, faults>>
    /\ UNCHANGED <<received, transcripts, sockEvents, micOutcome>>
    /\ UNCHANGED <<tokenResp, rejection>>
    /\ UNCHANGED notRealtime

\* Variant: the error handler releases the microphone and the audio graph.
SocketFailReleases ==
    /\ readyState \in {"CONNECTING", "OPEN"}
    /\ readyState' = "CLOSED"
    /\ sockEvents' = sockEvents \o FailEvents
    /\ errors' = errors \o Dispatch(FailEvents)
    /\ stream' = IF stream = "live" THEN "stopped" ELSE stream
    /\ processor' = IF processor = "connected" THEN "disconnected" ELSE processor
    /\ source' = IF source = "connected" THEN "disconnected" ELSE source
    /\ audioContext' = IF audioContext = "running" THEN "closed" ELSE audioContext
    /\ UNCHANGED <<rtPc, sockFailed, openHandler, sent, framesOpen,
                   framesOther, stopCalls, stopThrew, releaseCalls,
                   ctxCloseRejected, lastStop, faults>>
    /\ UNCHANGED <<received, transcripts, micOutcome>>
    /\ UNCHANGED <<tokenResp, rejection>>
    /\ UNCHANGED notRealtime
\* The connection fails (network): the error event, then the close event
\* with the abnormal-closure code.
SocketFail ==
    /\ readyState \in {"CONNECTING", "OPEN"}
    /\ readyState' = "CLOSED"
    /\ sockEvents' = sockEvents \o FailEvents
    /\ errors' = errors \o Dispatch(FailEvents)
    /\ UNCHANGED <<rtPc, sockFailed, openHandler, stream, audioContext,
                   source, processor, sent, framesOpen, framesOther,
                   stopCalls, stopThrew, releaseCalls, ctxCloseRejected,
                   lastStop, faults>>
    /\ UNCHANGED <<received, transcripts, micOutcome>>
    /\ UNCHANGED <<tokenResp, rejection>>
    /\ UNCHANGED notRealtime

\* The server closes the established connection.
ServerClose ==
    /\ readyState = "OPEN"
    /\ readyState' = "CLOSED"
    /\ \E code \in CloseCodes, reason \in CloseReasons :
          /\ sockEvents' = Append(sockEvents, CloseEvent(code, reason))
          /\ errors' = errors \o Dispatch(<<CloseEvent(code, reason)>>)
    /\ UNCHANGED <<rtPc, sockFailed, openHandler, stream, audioContext,
                   source, processor, sent, framesOpen, framesOther,
                   stopCalls, stopThrew, releaseCalls, ctxCloseRejected,
                   lastStop, faults>>
    /\ UNCHANGED <<received, transcripts, micOutcome>>
    /\ UNCHANGED <<tokenResp, rejection>>
    /\ UNCHANGED notRealtime

\* The closing handshake started by socket.close() ends.  A socket closed
\* while CONNECTING was failed: it gets the error event and the abnormal
\* close code.
CloseComplete ==
    /\ readyState = "CLOSING"
    /\ readyState' = "CLOSED"
    /\ IF sockFailed
       THEN /\ sockEvents' = sockEvents \o FailEvents
            /\ errors' = errors \o Dispatch(FailEvents)
       ELSE \E code \in CloseCodes, reason \in CloseReasons :
               /\ sockEvents' = Append(sockEvents, CloseEvent(code, reason))
               /\ errors' = errors \o Dispatch(<<CloseEvent(code, reason)>>)
    /\ UNCHANGED <<rtPc, sockFailed, openHandler, stream, audioContext,
                   source, processor, sent, framesOpen, framesOther,
                   stopCalls, stopThrew, releaseCalls, ctxCloseRejected,
                   lastStop, faults>>
    /\ UNCHANGED <<received, transcripts, micOutcome>>
    /\ UNCHANGED <<tokenResp, rejection>>
    /\ UNCHANGED notRealtime

\* A message event: socket.onmessage runs to completion.  The platform
\* dispatches message events only while the socket is OPEN.
SocketMessage ==
    /\ readyState = "OPEN"
    /\ Len(received) < MaxMsgs
    /\ \E m \in SocketMessages :
          LET h == OnMessage(m)
          IN  /\ received' = Append(received, [msg |-> m, run |-> h])
              /\ transcripts' = Deliver(transcripts, h.transcript)
              /\ errors' = errors \o h.error
    /\ UNCHANGED <<rtPc, readyState, sockFailed, openHandler, stream,
                   audioContext, source, processor, sent, framesOpen,
                   framesOther, stopCalls, stopThrew, releaseCalls,
                   ctxCloseRejected, lastStop, faults>>
    /\ UNCHANGED <<sockEvents, micOutcome>>
    /\ UNCHANGED <<tokenResp, rejection>>
    /\ UNCHANGED notRealtime

(***************************************************************************)
(* Overlapping calls of startRealtimeTranscription.  Every call runs the  *)
(* same code with closure variables of its own; here only the objects the *)
(* closure variables refer to are followed, not the socket traffic.        *)
(***************************************************************************)
Sessions == 1..MaxSessions
NoSession ==
    [pc |-> "idle", stopped |-> FALSE, stream |-> 0, audioContext |-> 0,
     source |-> 0, processor |-> 0, live |-> FALSE]

SessInit ==
    /\ own = [s \in Sessions |-> NoSession]
    /\ objects = 0

\* Variant: the stream, context and nodes are created once for the module.
SharedObjects(n) == [i \in 1..4 |-> i]
\* getUserMedia, new AudioContext, createMediaStreamSource and
\* createScriptProcessor each return an object that did not exist before.
NewObjects(n) == [i \in 1..4 |-> n + i]

\* How many of the four objects socket.onopen creates before it throws.
Created(o) ==
    CASE o = "denied" -> 0
      [] o = "no context" -> 1
      [] o = "no source" -> 2
      [] o = "no processor" -> 3
      [] o = "ok" -> 4

\* Call s of startRealtimeTranscription up to the await of the token fetch.
SessStart(s) ==
    /\ own[s].pc = "idle"
    /\ own' = [own EXCEPT ![s].pc = "token"]
    /\ UNCHANGED objects
    /\ UNCHANGED notSessions

\* The token fetch is answered: the call throws, or returns its session.
SessToken(s) ==
    /\ own[s].pc = "token"
    /\ \E next \in {"failed", "connecting"} :
          own' = [own EXCEPT ![s].pc = next]
    /\ UNCHANGED objects
    /\ UNCHANGED notSessions

\* The open event of the socket of call s.
SessOpen(s) ==
    /\ own[s].pc = "connecting"
    /\ own' = [own EXCEPT ![s].pc = "awaitMic"]
    /\ UNCHANGED objects
    /\ UNCHANGED notSessions

\* getUserMedia of call s settles and the rest of its socket.onopen runs.
SessMic(s) ==
    /\ own[s].pc = "awaitMic"
    /\ \E o \in MicOutcomes :
          LET made == Created(o)
              new == NewObjects(objects)
              Ref(i) == IF made >= i THEN new[i] ELSE 0
          IN  /\ own' = [own EXCEPT ![s] =
                    [pc |-> IF o = "ok" THEN "capturing" ELSE "micFailed",
                     stopped |-> @.stopped,
                     stream |-> Ref(1), audioContext |-> Ref(2),
                     source |-> Ref(3), processor |-> Ref(4),
                     live |-> made >= 1]]
              /\ objects' = objects + made
    /\ UNCHANGED notSessions

\* stop of session s: the tracks of the stream it refers to are stopped.
SessStop(s) ==
    /\ own[s].pc \in {"connecting", "awaitMic", "capturing", "micFailed"}
    /\ own' = [own EXCEPT ![s].stopped = TRUE, ![s].live = FALSE]
    /\ UNCHANGED objects
    /\ UNCHANGED notSessions

SessionsNext ==
    \E s \in Sessions :
        \/ SessStart(s)
        \/ SessToken(s)
        \/ SessOpen(s)
        \/ SessMic(s)
        \/ SessStop(s)

(***************************************************************************)
(* transformContentStream: the streamed part (the request and the loop    *)
(* over the provider stream).  A text is a sequence of characters, so that *)
(* texts can be concatenated.                                              *)
(***************************************************************************)
Calls == {"c1", "c2"}
\* A chunk of the provider stream: its text delta, which may be missing.
Chunk(hasText, text) == [hasText |-> hasText, text |-> text]
Chunks == {Chunk(FALSE, <<>>), Chunk(TRUE, <<"a">>), Chunk(TRUE, <<"b">>)}

NotCalled ==
    [pc |-> "notCalled", requests |-> 0, delivered |-> <<>>,
     yielded |-> <<>>, streamFailed |-> FALSE, yieldedAtFailure |-> 0]

GenInit == gen = [c \in Calls |-> NotCalled]

\* Variant: a chunk without text yields nothing.
YieldOnlyText(chunk) == IF chunk.hasText THEN <<chunk.text>> ELSE <<>>
\* The body of the for await loop: yield chunk.text || "".
Yield(chunk) == <<IF chunk.hasText THEN chunk.text ELSE <<>>>>

\* Variant: a failed stream is requested again.
StreamFailureRetried(g) ==
    [g EXCEPT !.pc = "awaitRequest", !.requests = @ + 1,
              !.streamFailed = TRUE, !.yieldedAtFailure = Len(g.yielded)]
\* The iterator rejects inside for await: nothing catches, the generator
\* ends and the consumer's next() rejects.
StreamFailurePropagates(g) ==
    [g EXCEPT !.pc = "threw", !.streamFailed = TRUE,
              !.yieldedAtFailure = Len(g.yielded)]

\* transformContentStream(...) is called: the generator object is returned,
\* its body has not started.
GenCall(c) ==
    /\ gen[c].pc = "notCalled"
    /\ gen' = [gen EXCEPT ![c].pc = "suspendedStart"]
    /\ UNCHANGED notStream

\* The consumer calls next(): the first time the body runs up to the await
\* of generateContentStream; later the loop resumes after the yield and
\* awaits the next chunk.
GenNext(c) ==
    /\ gen[c].pc \in {"suspendedStart", "suspendedYield"}
    /\ gen' = IF gen[c].pc = "suspendedStart"
              THEN [gen EXCEPT ![c].pc = "awaitRequest",
                               ![c].requests = @ + 1]
              ELSE [gen EXCEPT ![c].pc = "awaitChunk"]
    /\ UNCHANGED notStream

\* generateContentStream settles: with the stream, or rejected.
RequestSettles(c) ==
    /\ gen[c].pc = "awaitRequest"
    /\ \/ gen' = [gen EXCEPT ![c].pc = "awaitChunk"]
       \/ gen' = [gen EXCEPT ![c].pc = "threw"]
    /\ UNCHANGED notStream

\* The provider stream of call c delivers a chunk: the loop body yields.
StreamChunk(c) ==
    /\ gen[c].pc = "awaitChunk"
    /\ Len(gen[c].delivered) < MaxChunks
    /\ \E chunk \in Chunks :
          gen' = [gen EXCEPT ![c].delivered = Append(@, chunk),
                             ![c].yielded = @ \o Yield(chunk),
                             ![c].pc = "suspendedYield"]
    /\ UNCHANGED notStream

\* The provider stream of call c ends: the loop and the generator end.
StreamEnd(c) ==
    /\ gen[c].pc = "awaitChunk"
    /\ gen' = [gen EXCEPT ![c].pc = "completed"]
    /\ UNCHANGED notStream

\* The provider stream of call c fails.
StreamFail(c) ==
    /\ gen[c].pc = "awaitChunk"
    /\ gen' = [gen EXCEPT ![c] = StreamFailurePropagates(@)]
    /\ UNCHANGED notStream

StreamNext ==
    \E c \in Calls :
        \/ GenCall(c)
        \/ GenNext(c)
        \/ RequestSettles(c)
        \/ StreamChunk(c)
        \/ StreamEnd(c)
        \/ StreamFail(c)

(***************************************************************************)
(* transformContentStream: the tone, language and style parts of          *)
(* systemInstruction.                                                      *)
(***************************************************************************)
toneMap ==
    [professional |-> "Use a professional, business-appropriate tone.",
     casual |-> "Use a casual, relaxed conversational tone.",
     friendly |-> "Use a warm, friendly, and approachable tone."]
\* (the names in native script that two of the texts add in parentheses
\* are left out)
languageMap ==
    [en |-> "Write the output in English.",
     zh |-> "Write the output in Simplified Chinese.",
     ms |-> "Write the output in Bahasa Melayu.",
     ta |-> "Write the output in Tamil."]
\* What an object literal inherits from Object.prototype, as the template
\* literal renders it.
ObjectPrototype ==
    [constructor |-> "function Object() { [native code] }",
     toString |-> "function toString() { [native code] }"]

\* map[key]: an own property, else an inherited one, else undefined.
Property(map, key) ==
    IF key \in DOMAIN map THEN map[key]
    ELSE IF key \in DOMAIN ObjectPrototype THEN ObjectPrototype[key]
    ELSE Absent
\* a || b
Or(a, b) == IF Truthy(a) THEN a ELSE b

toneInstruction(o) ==
    Or(Property(toneMap, Or(o.tone, "professional")), toneMap.professional)
languageInstruction(o) ==
    Or(Property(languageMap, Or(o.language, "en")), languageMap.en)
styleInstruction(o) ==
    IF Truthy(o.styleGuide) THEN <<"ADDITIONAL STYLE GUIDE", o.styleGuide>>
    ELSE <<>>

ToneKeys ==
    {Absent, "", "professional", "casual", "friendly", "sarcastic",
     "constructor"}
LanguageKeys == {Absent, "", "en", "zh", "ms", "ta", "fr", "toString"}
StyleGuides == {Absent, "", "short sentences"}
Options == [tone : ToneKeys, language : LanguageKeys, styleGuide : StyleGuides]
NoOptions == [tone |-> Absent, language |-> Absent, styleGuide |-> Absent]
NotBuilt == [built |-> FALSE, tone |-> "", language |-> "", style |-> <<>>]

InstrIdle == options = NoOptions /\ instruction = NotBuilt
InstrInit == options \in Options /\ instruction = NotBuilt

\* The statements that build systemInstruction from the options.
BuildInstruction ==
    /\ ~instruction.built
    /\ instruction' = [built |-> TRUE,
                       tone |-> toneInstruction(options),
                       language |-> languageInstruction(options),
                       style |-> styleInstruction(options)]
    /\ UNCHANGED options
    /\ UNCHANGED notInstruction

InstructionNext == BuildInstruction

(***************************************************************************)
(* formatDiarizedTranscript.  A string is the sequence of the pieces it is *)
(* put together from; the empty string is the empty sequence.              *)
(***************************************************************************)
FormatUtterance == [speaker : Speakers, text : {"hi", "bye"}]
FormatUtteranceLists ==
    UNION {[1..n -> FormatUtterance] : n \in 0..MaxUtts}
\* The fields of a DiarizedTranscript the function reads.
Transcripts ==
    [status : {"completed", "error"}, text : Texts,
     utterances : FormatUtteranceLists, error : ErrFields]
NoTranscript ==
    [status |-> "completed", text |-> "", utterances |-> <<>>,
     error |-> Absent]
NotFormatted == [done |-> FALSE, value |-> <<>>]

Str(s) == IF s = "" THEN <<>> ELSE <<s>>
\* `Speaker ${u.speaker}: ${u.text}`
Line(u) == <<"Speaker ", u.speaker, ": ", u.text>>
\* Variant: every element is followed by the separator.
RECURSIVE JoinTrailing(_, _)
JoinTrailing(parts, sep) ==
    IF parts = <<>> THEN <<>>
    ELSE Head(parts) \o sep \o JoinTrailing(Tail(parts), sep)
\* Array.prototype.join
RECURSIVE Join(_, _)
Join(parts, sep) ==
    IF parts = <<>> THEN <<>>
    ELSE IF Len(parts) = 1 THEN Head(parts)
    ELSE Head(parts) \o sep \o Join(Tail(parts), sep)
Lines(r) == [i \in 1..Len(r.utterances) |-> Line(r.utterances[i])]

\* Variant: the utterances are rendered whatever their number.
formatWithoutRawText(r) ==
    IF r.status = "error"
    THEN <<"Error: ", IF r.error = Absent THEN "undefined" ELSE r.error>>
    ELSE Join(Lines(r), <<"\n\n">>)
\* Variant: the status is looked at last.
formatStatusLast(r) ==
    IF Len(r.utterances) # 0 THEN Join(Lines(r), <<"\n\n">>)
    ELSE IF r.status = "error"
    THEN <<"Error: ", IF r.error = Absent THEN "undefined" ELSE r.error>>
    ELSE Str(r.text)
formatDiarizedTranscript(r) ==
    IF r.status = "error"
    THEN <<"Error: ", IF r.error = Absent THEN "undefined" ELSE r.error>>
    ELSE IF Len(r.utterances) = 0 THEN Str(r.text)
    ELSE Join(Lines(r), <<"\n\n">>)

FormatIdle == formatArg = NoTranscript /\ formatted = NotFormatted
FormatInit == formatArg \in Transcripts /\ formatted = NotFormatted

\* A call formatDiarizedTranscript(formatArg).
Format ==
    /\ ~formatted.done
    /\ formatted' = [done |-> TRUE, value |-> formatDiarizedTranscript(formatArg)]
    /\ UNCHANGED formatArg
    /\ UNCHANGED notFormat

FormatNext == Format

(***************************************************************************)
(* createPcmBlob.  A sample is the fraction num/den; the values are exact  *)
(* in Float32Array, and so are their products with the scale in double    *)
(* precision.  A binary string is the sequence of its character codes and  *)
(* the base64 text the sequence of its digits (64 for the padding '=').     *)
(***************************************************************************)
Fraction(n, d) == [num |-> n, den |-> d]
SampleValues == {Fraction(n, 8) : n \in {-12, -8, -6, -1, 0, 1, 6, 8, 12}}
SampleBuffers == UNION {[1..n -> SampleValues] : n \in 0..MaxSamples}
NoBlob == [done |-> FALSE, data |-> <<>>]

Scale == 32767
\* Variant: the sample is scaled as it is.
ClampMissing(x) == x
\* Math.max(-1, Math.min(1, x))
Clamp(x) ==
    LET low == IF x.num < x.den THEN x.num ELSE x.den
    IN  Fraction(IF low > -x.den THEN low ELSE -x.den, x.den)
\* The store into an Int16Array element: the fraction part is dropped and
\* the integer is taken modulo 2^16 into the signed range.
ToInt16(x) ==
    LET int == IF x.num >= 0 THEN x.num \div x.den ELSE -((-x.num) \div x.den)
        low == int % 65536
    IN  IF low >= 32768 THEN low - 65536 ELSE low
Scaled(x) == Fraction(Clamp(x).num * Scale, x.den)
\* new Uint8Array(int16.buffer): the two bytes of an element in the byte
\* order of the platform, which is little-endian on every platform the
\* application runs on.
ElementBytes(v) == <<(v % 65536) % 256, (v % 65536) \div 256>>
RECURSIVE BufferBytes(_)
BufferBytes(data) ==
    IF data = <<>> THEN <<>>
    ELSE ElementBytes(ToInt16(Scaled(Head(data)))) \o BufferBytes(Tail(data))
\* btoa
RECURSIVE btoa(_)
btoa(bin) ==
    CASE Len(bin) = 0 -> <<>>
      [] Len(bin) = 1 ->
            <<bin[1] \div 4, (bin[1] % 4) * 16, 64, 64>>
      [] Len(bin) = 2 ->
            <<bin[1] \div 4, (bin[1] % 4) * 16 + bin[2] \div 16,
              (bin[2] % 16) * 4, 64>>
      [] OTHER ->
            <<bin[1] \div 4, (bin[1] % 4) * 16 + bin[2] \div 16,
              (bin[2] % 16) * 4 + bin[3] \div 64, bin[3] % 64>>
            \o btoa(SubSeq(bin, 4, Len(bin)))
createPcmBlob(data) == btoa(BufferBytes(data))

PcmIdle == samples = <<>> /\ blob = NoBlob
PcmInit == samples \in SampleBuffers /\ blob = NoBlob

\* A call createPcmBlob(samples).
Encode ==
    /\ ~blob.done
    /\ blob' = [done |-> TRUE, data |-> createPcmBlob(samples)]
    /\ UNCHANGED samples
    /\ UNCHANGED notPcm

PcmNext == Encode

(***************************************************************************)
(* App: the transformation handlers and effects.  A state update and the  *)
(* render and effects that follow it are one step.                         *)
(***************************************************************************)
\* The values each control offers (a selection of them).
SettingValues ==
    [outputFormat |-> {"EMAIL", "SUMMARY"},
     tone |-> {"professional", "casual"},
     summaryLength |-> {"MEDIUM"},
     language |-> {"en"}]
SettingNames == DOMAIN SettingValues
\* useState initial values
InitialSettings ==
    [outputFormat |-> "EMAIL", tone |-> "professional",
     summaryLength |-> "MEDIUM", language |-> "en"]
TranscriptTexts == {"", "T1"}
FailedToTransform == "Failed to transform content."

AppInit ==
    /\ ui = [transcript |-> "", transformedOutput |-> <<>>,
             isTransforming |-> FALSE, error |-> "",
             settings |-> InitialSettings]
    /\ prevSettings = InitialSettings
    /\ shortcutSettings = InitialSettings
    /\ runs = <<>>
    /\ cleared = FALSE

\* What a run of handleTransform sees of the React state after a step.
Seen(u) ==
    [isTransforming |-> u.isTransforming,
     transformedOutput |-> u.transformedOutput, error |-> u.error]
\* What it sees of it when its stream has ended or failed.
Outcome(u) == [isTransforming |-> u.isTransforming, error |-> u.error]
NotSettled == [isTransforming |-> TRUE, error |-> ""]

\* handleTransform up to the first await, called from a closure holding the
\* transcript t and the settings s: the state it leaves and whether it
\* called transformContentStream.
handleTransform(u, t, s) ==
    IF ~Truthy(t) THEN [ui |-> u, started |-> FALSE]
    ELSE [ui |-> [u EXCEPT !.isTransforming = TRUE,
                           !.transformedOutput = <<>>, !.error = ""],
          started |-> TRUE]

\* Variant: isTransforming is reset only when the stream ends.
SettleWithoutFinally(u, failed) ==
    IF failed THEN [u EXCEPT !.error = FailedToTransform]
    ELSE [u EXCEPT !.isTransforming = FALSE]
\* The catch and finally blocks of handleTransform.
Settle(u, failed) ==
    [u EXCEPT !.error = IF failed THEN FailedToTransform ELSE @,
              !.isTransforming = FALSE]

\* The keydown effect runs again when transcript or isTransforming changed
\* and registers a handler closing over the render's handleTransform.
Registered(u) ==
    IF u.transcript # ui.transcript \/ u.isTransforming # ui.isTransforming
    THEN u.settings ELSE shortcutSettings

\* A call of handleTransform made from a closure with the settings s, in
\* the state u its caller has reached.
Invoke(u, s) ==
    LET h == handleTransform(u, u.transcript, s)
    IN  /\ h.started => Len(runs) < MaxRuns
        /\ ui' = h.ui
        /\ shortcutSettings' = Registered(h.ui)
        /\ runs' = IF h.started
                   THEN Append(runs, [settings |-> s,
                                      transcript |-> u.transcript,
                                      pc |-> "streaming", got |-> 0,
                                      afterStart |-> Seen(h.ui),
                                      afterEnd |-> NotSettled])
                   ELSE runs
        /\ cleared' = (cleared /\ ~h.started)

\* The Transform button (disabled without transcript or while transforming).
ClickTransform ==
    /\ Truthy(ui.transcript) /\ ~ui.isTransforming
    /\ Invoke(ui, ui.settings)
    /\ UNCHANGED prevSettings
    /\ UNCHANGED notApp

\* Cmd/Ctrl+Enter: the registered keydown handler.
Shortcut ==
    /\ Truthy(ui.transcript) /\ ~ui.isTransforming
    /\ Invoke(ui, shortcutSettings)
    /\ UNCHANGED prevSettings
    /\ UNCHANGED notApp

\* The Re-transform button (rendered when there is output): handleRetransform.
ClickRetransform ==
    /\ ui.transformedOutput # <<>>
    /\ Truthy(ui.transcript)
    /\ Invoke(ui, ui.settings)
    /\ UNCHANGED prevSettings
    /\ UNCHANGED notApp

\* A format tab, the language select, a length or a tone button: the
\* setter, the render and the auto-transform effect.
ChangeSetting ==
    \E name \in SettingNames :
      \E value \in SettingValues[name] \ {ui.settings[name]} :
        LET u == [ui EXCEPT !.settings[name] = value]
            settingsChanged == prevSettings # u.settings
        IN  /\ IF settingsChanged /\ Truthy(u.transcript)
                     /\ u.transformedOutput # <<>> /\ ~u.isTransforming
               THEN Invoke(u, u.settings)
               ELSE /\ ui' = u
                    /\ UNCHANGED <<runs, cleared, shortcutSettings>>
            /\ prevSettings' = u.settings
    /\ UNCHANGED notApp

\* The textarea's onChange, or the sample text button.
EditTranscript ==
    /\ \E t \in TranscriptTexts \ {ui.transcript} :
          LET u == [ui EXCEPT !.transcript = t]
          IN  /\ ui' = u
              /\ shortcutSettings' = Registered(u)
              /\ cleared' = (cleared /\ t = "")
    /\ UNCHANGED <<prevSettings, runs>>
    /\ UNCHANGED notApp

\* Clear / Start Over: handleClear.
ClickClear ==
    /\ LET u == [ui EXCEPT !.transcript = "", !.transformedOutput = <<>>]
       IN  /\ ui' = u
           /\ shortcutSettings' = Registered(u)
    /\ cleared' = TRUE
    /\ UNCHANGED <<prevSettings, runs>>
    /\ UNCHANGED notApp

\* The stream of run r yields a fragment: the loop body appends it.
RunChunk(r) ==
    /\ runs[r].pc = "streaming"
    /\ runs[r].got < MaxChunks
    /\ ui' = [ui EXCEPT !.transformedOutput = Append(@, <<r, runs[r].got + 1>>)]
    /\ runs' = [runs EXCEPT ![r].got = @ + 1]
    /\ UNCHANGED <<prevSettings, shortcutSettings, cleared>>
    /\ UNCHANGED notApp

\* The stream of run r ends (failed: it throws): catch and finally run.
RunSettles(r, failed) ==
    /\ runs[r].pc = "streaming"
    /\ LET u == Settle(ui, failed)
       IN  /\ ui' = u
           /\ shortcutSettings' = Registered(u)
           /\ runs' = [runs EXCEPT ![r].pc = IF failed THEN "failed" ELSE "ended",
                                   ![r].afterEnd = Outcome(u)]
    /\ UNCHANGED <<prevSettings, cleared>>
    /\ UNCHANGED notApp
RunEnd(r) == RunSettles(r, FALSE)
RunFail(r) == RunSettles(r, TRUE)

AppNext ==
    \/ ClickTransform
    \/ Shortcut
    \/ ClickRetransform
    \/ ChangeSetting
    \/ EditTranscript
    \/ ClickClear
    \/ \E r \in 1..Len(runs) : RunChunk(r) \/ RunEnd(r) \/ RunFail(r)

(***************************************************************************)
(* App: browser speech recognition.  error and transcript are the React   *)
(* state the transformation handlers use too.                              *)
(***************************************************************************)
RecIdle ==
    /\ isRecording = FALSE
    /\ recognitionRef = 0
    /\ recCalls = <<>>
    /\ speechSupported = TRUE
RecInit ==
    /\ isRecording = FALSE
    /\ recognitionRef = 0
    /\ recCalls = <<>>
    /\ speechSupported \in BOOLEAN

NotSupported == "Speech recognition not supported. Try Chrome."
MicrophoneDenied == "Microphone access denied."
\* err.message of a rejected getUserMedia
RejectionMessages == {"", "Permission denied"}
\* event.error of a recognition error event
RecognitionErrors == {"no-speech", "network"}

\* A setter of transcript or error, with the render that follows it.
SetUi(u) ==
    /\ ui' = u
    /\ shortcutSettings' = Registered(u)

\* The record button while not recording: startRecording up to its await.
StartRecording ==
    /\ ~isRecording
    /\ Len(recCalls) < MaxRecCalls
    /\ IF ~speechSupported
       THEN /\ SetUi([ui EXCEPT !.error = NotSupported])
            /\ isRecording' = FALSE
            /\ recCalls' = Append(recCalls, [pc |-> "unsupported"])
       ELSE /\ SetUi([ui EXCEPT !.error = ""])
            /\ isRecording' = TRUE
            /\ recCalls' = Append(recCalls, [pc |-> "awaitingMic"])
    /\ UNCHANGED <<recognitionRef, speechSupported>>
    /\ UNCHANGED <<prevSettings, runs, cleared>>
    /\ UNCHANGED notRecording

\* getUserMedia resolves: call c creates its recognition, stores it in the
\* ref and starts it.
MicGranted(c) ==
    /\ recCalls[c].pc = "awaitingMic"
    /\ recognitionRef' = c
    /\ recCalls' = [recCalls EXCEPT ![c].pc = "running"]
    /\ UNCHANGED <<isRecording, speechSupported>>
    /\ UNCHANGED appVars
    /\ UNCHANGED notRecording

\* getUserMedia rejects: the catch block of call c.
MicDenied(c) ==
    /\ recCalls[c].pc = "awaitingMic"
    /\ \E message \in RejectionMessages :
          SetUi([ui EXCEPT !.error = Or(message, MicrophoneDenied)])
    /\ isRecording' = FALSE
    /\ recCalls' = [recCalls EXCEPT ![c].pc = "denied"]
    /\ UNCHANGED <<recognitionRef, speechSupported>>
    /\ UNCHANGED <<prevSettings, runs, cleared>>
    /\ UNCHANGED notRecording

\* The record button while recording: stopRecording.  stop() ends the
\* recognition the ref holds.
StopRecording ==
    /\ isRecording
    /\ isRecording' = FALSE
    /\ IF recognitionRef # 0
       THEN /\ recCalls' = [recCalls EXCEPT ![recognitionRef].pc = "ended"]
            /\ recognitionRef' = 0
       ELSE UNCHANGED <<recCalls, recognitionRef>>
    /\ UNCHANGED speechSupported
    /\ UNCHANGED appVars
    /\ UNCHANGED notRecording

\* onresult of the recognition of call c: the text heard so far.
RecognitionResult(c) ==
    /\ recCalls[c].pc = "running"
    /\ \E t \in TranscriptTexts \ {""} : SetUi([ui EXCEPT !.transcript = t])
    /\ cleared' = FALSE
    /\ UNCHANGED recVars
    /\ UNCHANGED <<prevSettings, runs>>
    /\ UNCHANGED notRecording

\* onerror of the recognition of call c; an error ends the recognition.
RecognitionError(c) ==
    /\ recCalls[c].pc = "running"
    /\ \E e \in RecognitionErrors :
          SetUi(IF e # "no-speech"
                THEN [ui EXCEPT !.error = "Recognition error: " \o e]
                ELSE ui)
    /\ isRecording' = FALSE
    /\ recCalls' = [recCalls EXCEPT ![c].pc = "ended"]
    /\ UNCHANGED <<recognitionRef, speechSupported>>
    /\ UNCHANGED <<prevSettings, runs, cleared>>
    /\ UNCHANGED notRecording

\* The browser ends the recognition of call c; no handler is registered.
RecognitionEnd(c) ==
    /\ recCalls[c].pc = "running"
    /\ recCalls' = [recCalls EXCEPT ![c].pc = "ended"]
    /\ UNCHANGED <<isRecording, recognitionRef, speechSupported>>
    /\ UNCHANGED appVars
    /\ UNCHANGED notRecording

RecordingNext ==
    \/ StartRecording
    \/ StopRecording
    \/ \E c \in 1..Len(recCalls) :
          \/ MicGranted(c)
          \/ MicDenied(c)
          \/ RecognitionResult(c)
          \/ RecognitionError(c)
          \/ RecognitionEnd(c)

RealtimeNext ==
    \/ RtStart
    \/ TokenResponse
    \/ SocketOpen
    \/ MicResult
    \/ AudioFrame
    \/ Stop
    \/ SocketFail
    \/ ServerClose
    \/ CloseComplete
    \/ SocketMessage

(***************************************************************************)
(* Specifications.  The batch workflow and the realtime session share no   *)
(* state and call nothing of each other: each is checked under its own     *)
(* specification, the other client staying idle.                           *)
(***************************************************************************)
\* The batch workflow alone, the realtime client idle.
BatchSpecInit ==
    /\ BatchInit /\ RtInit(FALSE) /\ SessInit /\ GenInit /\ InstrIdle
    /\ FormatIdle /\ PcmIdle /\ AppInit /\ RecIdle
BatchSpec == BatchSpecInit /\ [][BatchNext]_vars

\* The event loop runs every ready continuation and every answered request
\* is delivered; nothing obliges the provider to finish the job.
BatchFairSpec == BatchSpec /\ WF_vars(BatchClientNext)

\* One realtime session on a conforming platform, the batch client idle.
RealtimeInit ==
    /\ RtInit(FALSE) /\ SessInit /\ GenInit /\ InstrIdle
    /\ BatchInit /\ hasProgress = FALSE
    /\ FormatIdle /\ PcmIdle /\ AppInit /\ RecIdle
RealtimeSpec == RealtimeInit /\ [][RealtimeNext]_vars

\* The same with platform calls of stop that may throw.
RealtimeFaultInit ==
    /\ RtInit(TRUE) /\ SessInit /\ GenInit /\ InstrIdle
    /\ BatchInit /\ hasProgress = FALSE
    /\ FormatIdle /\ PcmIdle /\ AppInit /\ RecIdle
\* stop is independent of the messages the session received: the faults are
\* explored on sessions that receive none.
RealtimeFaultNext ==
    \/ RtStart
    \/ TokenResponse
    \/ SocketOpen
    \/ MicResult
    \/ AudioFrame
    \/ Stop
    \/ SocketFail
    \/ ServerClose
    \/ CloseComplete
RealtimeFaultSpec == RealtimeFaultInit /\ [][RealtimeFaultNext]_vars

\* Calls of startRealtimeTranscription that overlap, each with its closure.
SessionsInit ==
    /\ SessInit /\ RtInit(FALSE) /\ GenInit /\ InstrIdle
    /\ BatchInit /\ hasProgress = FALSE
    /\ FormatIdle /\ PcmIdle /\ AppInit /\ RecIdle
SessionsSpec == SessionsInit /\ [][SessionsNext]_vars

\* Concurrent calls of transformContentStream, each with its consumer and
\* its provider stream.
StreamInit ==
    /\ GenInit /\ InstrIdle /\ SessInit /\ RtInit(FALSE)
    /\ BatchInit /\ hasProgress = FALSE
    /\ FormatIdle /\ PcmIdle /\ AppInit /\ RecIdle
StreamSpec == StreamInit /\ [][StreamNext]_vars

\* The instruction built from every combination of options.
InstructionInit ==
    /\ InstrInit /\ GenInit /\ SessInit /\ RtInit(FALSE)
    /\ BatchInit /\ hasProgress = FALSE
    /\ FormatIdle /\ PcmIdle /\ AppInit /\ RecIdle
InstructionSpec == InstructionInit /\ [][InstructionNext]_vars

\* formatDiarizedTranscript applied to every transcript.
FormatSpecInit ==
    /\ FormatInit /\ PcmIdle /\ AppInit /\ RecIdle
    /\ InstrIdle /\ GenInit /\ SessInit /\ RtInit(FALSE)
    /\ BatchInit /\ hasProgress = FALSE
FormatSpec == FormatSpecInit /\ [][FormatNext]_vars

\* createPcmBlob applied to every sample buffer.
PcmSpecInit ==
    /\ PcmInit /\ FormatIdle /\ AppInit /\ RecIdle
    /\ InstrIdle /\ GenInit /\ SessInit /\ RtInit(FALSE)
    /\ BatchInit /\ hasProgress = FALSE
PcmSpec == PcmSpecInit /\ [][PcmNext]_vars

\* The user at the transformation controls and the streams of the runs.
AppSpecInit ==
    /\ AppInit /\ RecIdle /\ PcmIdle /\ FormatIdle
    /\ InstrIdle /\ GenInit /\ SessInit /\ RtInit(FALSE)
    /\ BatchInit /\ hasProgress = FALSE
AppSpec == AppSpecInit /\ [][AppNext]_vars

\* The user at the record button, the permission prompt and the browser's
\* recognitions.
RecordingInit ==
    /\ RecInit /\ AppInit /\ PcmIdle /\ FormatIdle
    /\ InstrIdle /\ GenInit /\ SessInit /\ RtInit(FALSE)
    /\ BatchInit /\ hasProgress = FALSE
RecordingSpec == RecordingInit /\ [][RecordingNext]_vars

(***************************************************************************)
(* Properties of the batch workflow.                                        *)
(***************************************************************************)
\* What the environment did to the workflow, read off the answers alone.
RequestFailed == lastResp.kind \in {"reject", "badjson", "notok"}
ProviderFailed == lastResp.kind = "ok" /\ lastStatus = "error"
\* The step whose request was answered last.
AnsweredStep ==
    IF transcriptId # Absent THEN "poll"
    ELSE IF uploadUrl # Absent THEN "start" ELSE "upload"
DefaultMessage(step) ==
    CASE step = "upload" -> "Upload failed"
      [] step = "start" -> "Transcription start failed"
      [] step = "poll" -> "Polling failed"
\* The message of the failure that ended the workflow.
FailureMessage ==
    CASE ProviderFailed ->
            <<"Transcription failed: ",
              IF jobError = Absent THEN "undefined" ELSE jobError>>
      [] lastResp.kind = "reject" -> NetworkErrorMsg
      [] lastResp.kind = "badjson" -> ParseErrorMsg
      [] lastResp.kind = "notok" /\ lastResp.err # Absent -> <<lastResp.err>>
      [] lastResp.kind = "notok" /\ lastResp.err = Absent ->
            <<DefaultMessage(AnsweredStep)>>

\* C1: transcribeWithDiarization never rejects: after any failure of upload,
\* job start or polling (rejected request, unreadable body, non-success
\* status, provider status 'error' after any number of non-terminal
\* statuses) the promise is resolved with status 'error', the failure's
\* message in the error field, and empty text, utterances and speakers.
C1_FailureResolvesWithErrorResult ==
    /\ promise # "rejected"
    /\ (RequestFailed \/ ProviderFailed) =>
          /\ promise = "resolved"
          /\ result.status = "error"
          /\ result.error = FailureMessage
          /\ result.text = ""
          /\ result.utterances = <<>>
          /\ result.speakers = <<>>

\* C1 witness: the provider reported 'error' after two non-terminal statuses
\* and the workflow resolved with the error transcript.
C1_Witness ==
    /\ ProviderFailed
    /\ nonTerminal = 2
    /\ promise = "resolved"
    /\ result.status = "error"

\* C2: n non-terminal statuses followed by 'completed' (n below the counter
\* cap) make the poll issue exactly n+1 status requests and wait exactly n
\* delay intervals, one between each pair of consecutive requests, and the
\* workflow resolves with the completed payload.
C2_PollCountsRequestsAndDelays ==
    /\ (polls > 0 /\ polls < PollCap) => delays = polls - 1
    /\ (bPc = "done" /\ lastResp.kind = "ok" /\ lastStatus = "completed"
            /\ polls < PollCap) =>
          /\ polls = nonTerminal + 1
          /\ delays = nonTerminal
          /\ promise = "resolved"
          /\ result.status = "completed"
          /\ result.text = jobPayload.text
          /\ result.utterances = jobPayload.utterances

\* C2 witness: processing, processing, completed: three requests, two delays.
C2_Witness ==
    /\ bPc = "done"
    /\ result.status = "completed"
    /\ nonTerminal = 2
    /\ polls = 3
    /\ delays = 2

\* The poll ended (the workflow got as far as a status request and is done).
PollEnded == bPc = "done" /\ polls > 0

\* C3 as stated: polling ends only when a terminal status is observed or
\* the network request itself fails (is rejected).
C3_Original_EndsOnlyOnTerminalOrNetworkFailure ==
    PollEnded =>
        \/ lastResp.kind = "ok" /\ lastStatus \in Terminal
        \/ lastResp.kind = "reject"

\* Polling ends only on a terminal status or a failed status request.
PollEndsOnlyOnTerminalOrFailedRequest ==
    PollEnded =>
        \/ lastResp.kind = "ok" /\ lastStatus \in Terminal
        \/ RequestFailed

\* C3 (amended): polling has no retry ceiling: after every non-terminal
\* status another status request follows, and polling ends only when a
\* terminal status is observed or a status request fails (rejected request,
\* non-success HTTP status or unreadable body); the workflow eventually
\* resolves once the provider reports a terminal status.
C3_NoRetryCeiling ==
    /\ []PollEndsOnlyOnTerminalOrFailedRequest
    /\ (bPc = "wait") ~> (bPc = "poll")
    /\ (jobStatus \in Terminal) ~> (bPc = "done" /\ promise = "resolved")

\* C3 witness: the loop is still polling after the counters have saturated,
\* the job being non-terminal.
C3_Witness ==
    /\ bPc = "poll"
    /\ polls = PollCap
    /\ nonTerminal = PollCap
    /\ jobStatus \in NonTerminal

\* Positions of the events of one kind in the log.
LogPos(e) == {i \in 1..Len(bLog) : bLog[i].ev = e}
StepLabel(e) ==
    CASE e = "upload" -> LabelUpload
      [] e = "transcribe" -> LabelStart
      [] e = "status" -> LabelPoll

\* C4: Upload, Start Job and Poll run strictly in that order: each step's
\* progress label directly precedes its request, the start-job request
\* follows a successful upload and carries its URL, the first status request
\* follows a successful job start and carries its id, upload and start-job
\* are requested at most once, and nothing follows a failed step.
C4_StepsInOrder ==
    /\ \A e \in {"upload", "transcribe", "status"} :
          /\ Cardinality(LogPos(e)) <= 1
          /\ hasProgress => \A i \in LogPos(e) :
                /\ i > 1
                /\ bLog[i - 1] = [ev |-> "progress", arg |-> StepLabel(e)]
    /\ Cardinality(LogPos("progress")) <=
          Cardinality(LogPos("upload") \cup LogPos("transcribe")
                      \cup LogPos("status"))
    /\ \A i \in LogPos("transcribe") : \E j \in 1..(i - 1) :
          /\ bLog[j] = [ev |-> "upload ok", arg |-> bLog[i].arg]
          /\ \E k \in 1..(j - 1) : bLog[k].ev = "upload"
    /\ \A i \in LogPos("status") : \E j \in 1..(i - 1) :
          /\ bLog[j] = [ev |-> "transcribe ok", arg |-> bLog[i].arg]
          /\ \E k \in 1..(j - 1) : bLog[k].ev = "transcribe"
    /\ \A i \in LogPos("upload failed") \cup LogPos("transcribe failed") :
          i = Len(bLog)
    /\ failedAt # "none" => bPc = "done"
    /\ failedAt = "poll" => bLog[Len(bLog)].ev = "status"

\* C4 witness: all three steps ran with a progress callback.
C4_Witness ==
    /\ hasProgress
    /\ LogPos("status") # {}
    /\ bPc = "poll"

\* C19: in a completed result, speakers holds the speaker labels that occur
\* in the utterances, each once, in ascending order; it is empty when there
\* are no utterances.
C19_SpeakersDistinctSorted ==
    (promise = "resolved" /\ result.status = "completed") =>
        LET sp == result.speakers
        IN  /\ {sp[i] : i \in 1..Len(sp)} = DistinctSpeakers(result.utterances)
            /\ \A i, j \in 1..Len(sp) :
                  i < j => SpeakerRank(sp[i]) < SpeakerRank(sp[j])
            /\ result.utterances = <<>> => sp = <<>>

\* C19 witness: speaker B spoke before speaker A; the result lists A, B.
C19_Witness ==
    /\ promise = "resolved"
    /\ result.status = "completed"
    /\ Len(result.utterances) = 2
    /\ result.utterances[1].speaker = "B"
    /\ result.utterances[2].speaker = "A"
    /\ result.speakers = <<"A", "B">>

(***************************************************************************)
(* Properties of the realtime session.                                      *)
(***************************************************************************)
\* The closure variable each release operation works on.
ReleasedBy(op) ==
    CASE op = "disconnect processor" -> "processor"
      [] op = "disconnect source" -> "source"
      [] op = "close context" -> "audioContext"
      [] op = "stop tracks" -> "stream"
\* The teardown order the specification gives.
TeardownOrder ==
    <<"terminate", "close", "disconnect processor", "disconnect source",
      "close context", "stop tracks">>
\* The operations a stop call owes, given the socket state and the
\* resources it found.
OwedBy(call, op) ==
    CASE op = "terminate" -> call.ready = "OPEN"
      [] op = "close" -> TRUE
      [] OTHER -> ReleasedBy(op) \in call.held
InSeq(x, seq) == \E i \in 1..Len(seq) : seq[i] = x
\* The audio graph is disconnected and the microphone tracks are stopped.
Released ==
    /\ stream # "live"
    /\ processor # "connected"
    /\ source # "connected"

\* C5: once stop has been called and no callback of the session is pending
\* (the open handler is not waiting for microphone access), every
\* audio-graph node is disconnected and every microphone track is stopped.
C5_StopReleasesEverything ==
    (stopCalls > 0 /\ openHandler # "awaitMic") => Released

\* C6: calling stop twice raises no error and releases once: no release
\* operation (stop tracks, disconnect a node, close the audio context) is
\* invoked a second time.
C6_SecondStopReleasesNothing ==
    stopCalls >= 2 =>
        /\ ~stopThrew
        /\ ~ctxCloseRejected
        /\ \A op \in ReleaseOps : releaseCalls[op] <= 1

\* C7: a stop called while the socket is CONNECTING raises no error, sends
\* nothing on the socket and closes it.
C7_StopWhileConnecting ==
    (stopCalls > 0 /\ lastStop.ready = "CONNECTING") =>
        /\ lastStop.threw = "none"
        /\ lastStop.ops = <<"close">>
        /\ ~InSeq("terminate", sent)
        /\ readyState \in {"CLOSING", "CLOSED"}

\* C7 witness: stop was called before the open event and the socket is
\* closing.
C7_Witness ==
    /\ stopCalls = 1
    /\ lastStop.ready = "CONNECTING"
    /\ readyState = "CLOSING"

\* C8: the operations of a stop call are, in this order: the termination
\* message iff the socket was open, the socket close, then the processor
\* disconnect, the source disconnect, the context close and the track stop
\* for the resources the session holds.
C8_TeardownOrder ==
    stopCalls > 0 =>
        lastStop.ops = SelectSeq(TeardownOrder, LAMBDA op : OwedBy(lastStop, op))

\* C8 witness: a stop of a streaming session went through all six steps.
C8_Witness ==
    /\ stopCalls > 0
    /\ lastStop.ready = "OPEN"
    /\ Len(lastStop.ops) = 6

\* C9: when one teardown step of a stop call fails, every other step the
\* call owes is still executed, and the microphone tracks are not left
\* running by the failure of an earlier step.
C9_BestEffortCleanup ==
    stopCalls > 0 =>
        /\ \A i \in 1..Len(TeardownOrder) :
              (OwedBy(lastStop, TeardownOrder[i])
                  /\ TeardownOrder[i] # lastStop.threw)
              => InSeq(TeardownOrder[i], lastStop.ops)
        /\ ("stream" \in lastStop.held /\ lastStop.threw # "stop tracks")
              => stream = "stopped"

\* Number of audio messages sent.
AudioSent == Cardinality({i \in 1..Len(sent) : sent[i] = "audio"})

\* C10: exactly one audio message per frame captured while the socket was
\* open, none for a frame captured in another socket state, and nothing is
\* sent after the termination message.
C10_FramesOnlyWhileOpen ==
    /\ AudioSent = framesOpen
    /\ \A i \in 1..Len(sent) : sent[i] = "terminate" => i = Len(sent)

\* C10 witness: stop sent the termination message, the audio graph came up
\* afterwards, and the frame it captured was not sent.
C10_Witness ==
    /\ framesOther >= 1
    /\ sent = <<"terminate">>

(***************************************************************************)
(* Properties of the realtime message and event handlers.                  *)
(***************************************************************************)
IsTranscript(m, type) == m.json /\ m.message_type = type
\* The onTranscript invocations a message with text is due.
DueCalls(m) ==
    CASE IsTranscript(m, "FinalTranscript") /\ Truthy(m.text) ->
            <<<<m.text, TRUE>>>>
      [] IsTranscript(m, "PartialTranscript") /\ Truthy(m.text) ->
            <<<<m.text, FALSE>>>>
      [] OTHER -> <<>>

\* C11 as stated: every FinalTranscript message invokes onTranscript exactly
\* once with (text, true), every PartialTranscript message exactly once with
\* (text, false), and a message of any other shape invokes no callback and
\* raises no error.
C11_Original_EveryTranscriptMessageDelivered ==
    \A i \in 1..Len(received) :
        LET m == received[i].msg
            r == received[i].run
        IN  /\ IsTranscript(m, "FinalTranscript") =>
                  r.transcript = <<<<m.text, TRUE>>>>
            /\ IsTranscript(m, "PartialTranscript") =>
                  r.transcript = <<<<m.text, FALSE>>>>
            /\ (~IsTranscript(m, "FinalTranscript")
                   /\ ~IsTranscript(m, "PartialTranscript")) =>
                  r.transcript = <<>> /\ r.error = <<>> /\ ~r.threw

\* C11: a JSON message of type FinalTranscript with non-empty text invokes
\* onTranscript exactly once with (text, true); one of type PartialTranscript
\* with non-empty text exactly once with (text, false); a transcript message
\* whose text is empty or missing, and a JSON message of any other type,
\* invokes neither callback and raises no error; a payload that is not JSON
\* invokes neither callback and makes the handler throw.
C11_MessagesWithTextDelivered ==
    \A i \in 1..Len(received) :
        LET m == received[i].msg
            r == received[i].run
        IN  /\ r.transcript = DueCalls(m)
            /\ r.error = <<>>
            /\ r.threw = ~m.json

\* C11 witness: a FinalTranscript and a PartialTranscript with text were
\* each delivered once, and a transcript message without text was dropped.
C11_Witness ==
    /\ \E i \in 1..Len(received) :
          /\ received[i].msg = JsonMessage("FinalTranscript", "a")
          /\ received[i].run.transcript = <<<<"a", TRUE>>>>
    /\ \E i \in 1..Len(received) :
          /\ received[i].msg = JsonMessage("PartialTranscript", "a")
          /\ received[i].run.transcript = <<<<"a", FALSE>>>>

\* The invocations due to a run of messages, in arrival order.
RECURSIVE DueInOrder(_)
DueInOrder(msgs) ==
    IF msgs = <<>> THEN <<>>
    ELSE DueCalls(Head(msgs).msg) \o DueInOrder(Tail(msgs))

\* C12: the onTranscript invocations are made in the arrival order of the
\* messages that cause them: nothing is reordered, held back or merged.
C12_CallbacksInArrivalOrder == transcripts = DueInOrder(received)

\* C12 witness: a partial transcript arrived before a final one and the
\* callbacks fired in that order.
C12_Witness ==
    /\ Len(received) = 2
    /\ received[1].msg = JsonMessage("PartialTranscript", "a")
    /\ received[2].msg = JsonMessage("FinalTranscript", "a")
    /\ transcripts = <<<<"a", FALSE>>, <<"a", TRUE>>>>

\* The onError invocations made by the socket's error and close handlers.
IsSocketReport(e) == e = OnSocketError \/ e[1] = "Connection closed: "
SocketReports == SelectSeq(errors, IsSocketReport)
\* The events that are to be reported: errors and closes other than normal.
Reportable(e) == e.ev = "error" \/ e.code # NormalClosure
ReasonText(e) == IF e.reason = "" THEN "Unknown reason" ELSE e.reason

\* C13: every error event and every close event with a code other than 1000
\* invokes onError once, in order, with 'WebSocket connection error',
\* respectively 'Connection closed: ' and the reason ('Unknown reason' when
\* there is none); a close event with code 1000 invokes nothing.
C13_SocketEventsReported ==
    LET due == SelectSeq(sockEvents, Reportable)
    IN  /\ Len(SocketReports) = Len(due)
        /\ \A i \in 1..Len(due) :
              IF due[i].ev = "error"
              THEN SocketReports[i] = <<"WebSocket connection error">>
              ELSE SocketReports[i] = <<"Connection closed: ", ReasonText(due[i])>>

\* C13 witness: the established connection failed; the error event and the
\* close event with code 1006 were both reported.
C13_Witness ==
    /\ sockEvents = FailEvents
    /\ openHandler # "idle"
    /\ SocketReports = <<<<"WebSocket connection error">>,
                         <<"Connection closed: ", "Unknown reason">>>>

MicReports == SelectSeq(errors, LAMBDA e : e[1] = "Microphone access failed: ")

\* C14: when getUserMedia rejects after the socket opened, onError is invoked
\* exactly once with the microphone message, no stream, context or node is
\* held or connected, no audio frame is delivered or sent, and until the
\* caller stops the session the client neither closes the socket nor sends
\* the terminate message.
C14_MicrophoneDenied ==
    micOutcome = "denied" =>
        /\ MicReports = <<<<"Microphone access failed: ", "denied">>>>
        /\ HeldResources = {}
        /\ framesOpen + framesOther = 0
        /\ AudioSent = 0
        /\ stopCalls = 0 => (readyState # "CLOSING" /\ sent = <<>>)

\* C14 witness: microphone access was denied and the socket is still open.
C14_Witness ==
    /\ micOutcome = "denied"
    /\ readyState = "OPEN"
    /\ Len(errors) = 1

\* C15: the error and close handlers release nothing: as long as the caller
\* has not invoked stop, whatever events the socket dispatched, no track is
\* stopped, no node disconnected and no context closed, and a graph that
\* was built is still live and connected.
C15_ErrorPathReleasesNothing ==
    stopCalls = 0 =>
        /\ stream \in {"null", "live"}
        /\ audioContext \in {"null", "running"}
        /\ source \in {"null", "created", "connected"}
        /\ processor \in {"null", "connected"}
        /\ micOutcome = "ok" =>
              /\ stream = "live"
              /\ audioContext = "running"
              /\ source = "connected"
              /\ processor = "connected"

\* C15 witness: the connection of a capturing session failed, onError was
\* invoked, and the microphone and the graph are still live.
C15_Witness ==
    /\ micOutcome = "ok"
    /\ sockEvents = FailEvents
    /\ SocketReports # <<>>
    /\ stopCalls = 0
    /\ stream = "live"
    /\ processor = "connected"

\* The objects the closure variables of call s refer to.
Refs(s) ==
    {own[s].stream, own[s].audioContext, own[s].source, own[s].processor} \ {0}
HoldsLiveStream(s) == own[s].stream # 0 /\ own[s].live

\* C16 as stated: at no moment do two sessions hold a live microphone
\* stream, and no stream or node is referenced by two sessions.
C16_Original_OneLiveStreamAtATime ==
    /\ Cardinality({s \in Sessions : HoldsLiveStream(s)}) <= 1
    /\ \A s, t \in Sessions : s # t => Refs(s) \cap Refs(t) = {}

\* C16: every session refers to a stream, a context and nodes of its own:
\* no stream and no node is referenced by two sessions, also when
\* startRealtimeTranscription is called again before the previous session
\* was stopped (the two sessions then each hold a live stream).
C16_NoSharedStreamOrNode ==
    \A s, t \in Sessions : s # t => Refs(s) \cap Refs(t) = {}

\* C16 witness: a second call was made while the first session was
\* capturing; both capture, each from a live stream of its own.
C16_Witness ==
    /\ own[1].pc = "capturing" /\ own[2].pc = "capturing"
    /\ ~own[1].stopped /\ ~own[2].stopped
    /\ HoldsLiveStream(1) /\ HoldsLiveStream(2)
    /\ own[1].stream # own[2].stream

(***************************************************************************)
(* Properties of transformContentStream.                                   *)
(***************************************************************************)
\* The text delta of a chunk; a chunk without text has the empty delta.
Delta(chunk) == IF chunk.hasText THEN chunk.text ELSE <<>>
Deltas(g) == [i \in 1..Len(g.delivered) |-> Delta(g.delivered[i])]
RECURSIVE Concat(_)
Concat(texts) ==
    IF texts = <<>> THEN <<>> ELSE Head(texts) \o Concat(Tail(texts))

\* C17: every call yields exactly one fragment per chunk its own provider
\* stream delivered, in order, each fragment the chunk's text delta; the
\* concatenation of the fragments is the concatenation of the deltas; the
\* sequence has ended only with all chunks yielded; and the fragments of a
\* call come from no other call's stream.
C17_OneFragmentPerChunk ==
    \A c \in Calls :
        LET g == gen[c]
        IN  /\ Len(g.yielded) = Len(g.delivered)
            /\ \A i \in 1..Len(g.delivered) :
                  g.yielded[i] = Delta(g.delivered[i])
            /\ Concat(g.yielded) = Concat(Deltas(g))

\* C17 witness: two calls overlap; the first received 'a' and a chunk
\* without text and completed, the second has received 'b'.
C17_Witness ==
    /\ gen["c1"].pc = "completed"
    /\ gen["c1"].delivered = <<Chunk(TRUE, <<"a">>), Chunk(FALSE, <<>>)>>
    /\ gen["c1"].yielded = <<<<"a">>, <<>>>>
    /\ gen["c2"].pc = "suspendedYield"
    /\ gen["c2"].yielded = <<<<"b">>>>

\* C18: a failure of the provider stream ends the generator by throwing to
\* the consumer; the chunks delivered before it were yielded and nothing is
\* yielded after it; the generative API is requested at most once per call,
\* and exactly once in a call whose stream failed.
C18_StreamFailurePropagates ==
    \A c \in Calls :
        LET g == gen[c]
        IN  /\ g.requests <= 1
            /\ g.streamFailed =>
                  /\ g.pc = "threw"
                  /\ g.requests = 1
                  /\ Len(g.yielded) = g.yieldedAtFailure
                  /\ g.yielded = Deltas(g)

\* C18 witness: the stream failed after one chunk, which was yielded.
C18_Witness ==
    /\ gen["c1"].streamFailed
    /\ gen["c1"].pc = "threw"
    /\ gen["c1"].yielded = <<<<"a">>>>
    /\ gen["c1"].requests = 1

\* C20: a tone key other than professional, casual and friendly (or none)
\* gives the professional tone text, and a language key other than en, zh,
\* ms and ta (or none) gives the English language text.
C20_UnrecognizedKeysFallBack ==
    instruction.built =>
        /\ options.tone \notin DOMAIN toneMap =>
              instruction.tone = toneMap.professional
        /\ options.language \notin DOMAIN languageMap =>
              instruction.language = languageMap.en

C22_Original_ZeroUtterancesGiveText ==
    (formatted.done /\ Len(formatArg.utterances) = 0) =>
        formatted.value = Str(formatArg.text)

\* C22: for a transcript with zero utterances whose status is not 'error'
\* the string is exactly the raw full text.
C22_ZeroUtterancesNoErrorGiveText ==
    (formatted.done /\ Len(formatArg.utterances) = 0
        /\ formatArg.status # "error") =>
        formatted.value = Str(formatArg.text)

\* C22 witness: a completed transcript without utterances rendered as its
\* full text.
C22_Witness ==
    /\ formatted.done
    /\ formatArg.status = "completed"
    /\ formatArg.utterances = <<>>
    /\ formatArg.text = "full text"
    /\ formatted.value = <<"full text">>

\* C23: for a transcript in error status the string is 'Error: ' followed
\* by the error message ('undefined' when there is none), whatever its text
\* and its utterances.
C23_ErrorStatusFirst ==
    (formatted.done /\ formatArg.status = "error") =>
        formatted.value =
            <<"Error: ",
              IF formatArg.error = Absent THEN "undefined" ELSE formatArg.error>>

\* C23 witness: an error transcript that has text and utterances.
C23_Witness ==
    /\ formatted.done
    /\ formatArg.status = "error"
    /\ formatArg.error = "E1"
    /\ formatArg.text = "full text"
    /\ Len(formatArg.utterances) = 2
    /\ formatted.value = <<"Error: ", "E1">>

(***************************************************************************)
(* Properties of createPcmBlob.                                            *)
(***************************************************************************)
\* atob: the bytes a base64 text stands for.
RECURSIVE atob(_)
atob(digits) ==
    IF Len(digits) < 4 THEN <<>>
    ELSE LET d == SubSeq(digits, 1, 4)
             b1 == d[1] * 4 + d[2] \div 16
             b2 == (d[2] % 16) * 16 + d[3] \div 4
             b3 == (d[3] % 4) * 64 + d[4]
         IN  (CASE d[3] = 64 -> <<b1>>
                [] d[3] # 64 /\ d[4] = 64 -> <<b1, b2>>
                [] OTHER -> <<b1, b2, b3>>)
             \o atob(SubSeq(digits, 5, Len(digits)))
\* Sample i of a byte sequence read as little-endian signed 16-bit samples.
ReadInt16LE(bytes, i) ==
    LET u == bytes[2 * i - 1] + 256 * bytes[2 * i]
    IN  IF u >= 32768 THEN u - 65536 ELSE u
Abs(n) == IF n < 0 THEN -n ELSE n

\* C24: for a buffer of N samples (N = 0 included) the base64 data decodes
\* to exactly 2N bytes, and sample i read from them as a little-endian
\* signed 16-bit integer differs by at most 1 from sample i of the input
\* clamped to [-1, 1] and multiplied by 32767.
C24_PcmWithinOneLsb ==
    blob.done =>
        LET bytes == atob(blob.data)
        IN  /\ Len(blob.data) % 4 = 0
            /\ Len(bytes) = 2 * Len(samples)
            /\ \A i \in 1..Len(samples) :
                  LET x == samples[i]
                      clamped ==
                          IF x.num > x.den THEN x.den
                          ELSE IF x.num < -x.den THEN -x.den ELSE x.num
                  IN  Abs(ReadInt16LE(bytes, i) * x.den - clamped * 32767)
                          <= x.den

\* C24 witness: a buffer with a sample above 1, one below -1 and a small
\* negative one was encoded into 6 bytes.
C24_Witness ==
    /\ blob.done
    /\ samples = <<Fraction(12, 8), Fraction(-12, 8), Fraction(-1, 8)>>
    /\ atob(blob.data) = <<255, 127, 1, 128, 1, 240>>

(***************************************************************************)
(* The close that stop triggers.                                           *)
(***************************************************************************)
\* C25: in a session whose socket opened and dispatched no error event, a
\* stop called while the socket is open (the terminate message was sent)
\* leads to no onError invocation by the socket handlers.
C25_StopClosesWithoutError ==
    (InSeq("terminate", sent)
        /\ \A i \in 1..Len(sockEvents) : sockEvents[i].ev # "error") =>
        SocketReports = <<>>


(***************************************************************************)
(* App: transformation                                                     *)
(***************************************************************************)
\* The runs of handleTransform whose stream is still being consumed.
InFlight == {r \in 1..Len(runs) : runs[r].pc = "streaming"}
\* The first n fragments of run r, in order.
Fragments(r, n) == [i \in 1..n |-> <<r, i>>]

\* C26: at most one transformation stream is consumed at a time, and
\* transformedOutput is a prefix of the fragments of a single run, in order.
C26_OneStreamAtATime ==
    /\ Cardinality(InFlight) <= 1
    /\ \E r \in 0..Len(runs) :
          ui.transformedOutput = Fragments(r, Len(ui.transformedOutput))

\* C28: whenever no transformation is in flight and transformedOutput is
\* not empty, every fragment of it was generated with the settings that are
\* selected now.
C28_OutputMatchesSettings ==
    (InFlight = {} /\ ui.transformedOutput # <<>>) =>
        \A i \in 1..Len(ui.transformedOutput) :
            runs[ui.transformedOutput[i][1]].settings = ui.settings

\* C29: after handleClear, transcript and transformedOutput are empty until
\* the user supplies new input or starts a new transformation.
C29_ClearedStaysEmpty ==
    cleared => (ui.transcript = "" /\ ui.transformedOutput = <<>>)

\* C30: every run started has a non-empty transcript and leaves
\* isTransforming true, the output empty and the error empty when it
\* starts; once its stream has ended or failed it has set isTransforming
\* false, a failure also having set the error 'Failed to transform
\* content.'; isTransforming is not left true when no run is in flight; and
\* handleTransform with an empty transcript changes no state and makes no
\* request.
C30_RunStartsAndSettles ==
    /\ \A r \in 1..Len(runs) :
          /\ Truthy(runs[r].transcript)
          /\ runs[r].afterStart =
                [isTransforming |-> TRUE, transformedOutput |-> <<>>,
                 error |-> ""]
          /\ runs[r].pc = "ended" => ~runs[r].afterEnd.isTransforming
          /\ runs[r].pc = "failed" =>
                runs[r].afterEnd = [isTransforming |-> FALSE,
                                    error |-> FailedToTransform]
    /\ InFlight = {} => ~ui.isTransforming
    /\ LET u == [ui EXCEPT !.transcript = ""]
       IN  handleTransform(u, u.transcript, u.settings) =
               [ui |-> u, started |-> FALSE]
\* A run has failed after an earlier run replaced some output, and nothing
\* is in flight.
C30_Witness ==
    /\ Len(runs) = 2
    /\ runs[1].pc = "ended" /\ runs[2].pc = "failed"
    /\ ui.error = FailedToTransform /\ ~ui.isTransforming


(***************************************************************************)
(* App: recording                                                          *)
(***************************************************************************)
\* The calls of startRecording whose recognition is running.
Recognizing == {c \in 1..Len(recCalls) : recCalls[c].pc = "running"}

\* C27: a recognition runs only while isRecording is true, and at most one
\* is running; so after stopRecording none is running and none is started
\* by a call of startRecording made before it.
C27_RecognitionOnlyWhileRecording ==
    /\ Cardinality(Recognizing) <= 1
    /\ Recognizing # {} => isRecording


(***************************************************************************)
(* Realtime: token failure                                                 *)
(***************************************************************************)
\* C31: when the token request fails, startRealtimeTranscription has invoked
\* onError exactly once, with the message of the failure, and has rejected
\* with the error of that message; no socket exists, microphone access was
\* not requested, nothing is held or sent and no session was returned, so
\* stop cannot be called.
C31_TokenFailureReportedAndRethrown ==
    tokenResp \in FailedResponses =>
        /\ errors = <<ThrownMessage(tokenResp, "Failed to get realtime token")>>
        /\ rejection = ThrownMessage(tokenResp, "Failed to get realtime token")
        /\ rtPc = "failed"
        /\ readyState = "NONE"
        /\ openHandler = "idle" /\ micOutcome = "none"
        /\ HeldResources = {}
        /\ sent = <<>> /\ sockEvents = <<>>
        /\ stopCalls = 0
\* C31 witness: the proxy answered the token request with a status that is
\* not ok and an error field, and the call has rejected.
C31_Witness ==
    /\ tokenResp = [kind |-> "notok", err |-> "E1"]
    /\ rejection = <<"E1">>
    /\ rtPc = "failed"

=============================================================================
